---- MODULE Spec2Model ----
(***************************************************************************)
(* Model of the pin layer of the pca9535 GPIO expander driver (src/pin.rs). *)
(* Pins are typed objects (ExpanderInputPin / ExpanderOutputPin) sharing    *)
(* one expander behind Rc<RefCell<_>>.  Every pin operation is a sequence  *)
(* of byte-wide register reads and writes on the shared device, each of    *)
(* which can fail; `?` ends the operation at the first failure.            *)
(*                                                                         *)
(* The device is a register file of eight u8 registers.  Each handler is   *)
(* an operator from the device before the call to the call's result and    *)
(* the device after it; the device records the bus transactions of the     *)
(* call in its log, in order.  One action per handler applies it.          *)
(***************************************************************************)
EXTENDS Integers, Sequences, FiniteSets, Bags, TLC

\* ------------------------------------------------------------------------
\* Program constants
\* ------------------------------------------------------------------------
\* reg_val: u8 -- register values are bytes, arithmetic is modulo 2^8
U8 == 256
\* assert!(pin < 8)
NumPins == 8

\* ------------------------------------------------------------------------
\* Bounds of the model
\* ------------------------------------------------------------------------
\* operations called in one behaviour
MaxOps == 3
\* constructor calls in one behaviour
MaxNew == 2
\* device transactions that fail in one behaviour
MaxFaults == 1
\* largest pin argument a caller passes to a constructor is NumPins + PinSlack - 1
PinSlack == 1

\* ------------------------------------------------------------------------
\* Data model
\* ------------------------------------------------------------------------
GPIOBank == {"Bank0", "Bank1"}
Register == {"ConfigurationPort0", "ConfigurationPort1",
             "PolarityInversionPort0", "PolarityInversionPort1",
             "OutputPort0", "OutputPort1",
             "InputPort0", "InputPort1"}
PinState == {"High", "Low"}
Polarity == {"Normal", "Inverse"}
\* the values of <Ex as Expander>::Error the device can return
DeviceError == {"E1", "E2"}

\* ------------------------------------------------------------------------
\* u8 arithmetic as the code uses it
\* ------------------------------------------------------------------------
Bit(v, i) == (v \div (2 ^ i)) % 2

\* a << n on u8
Shl(a, n) == (a * (2 ^ n)) % U8

\* a >> n on u8
Shr(a, n) == a \div (2 ^ n)

\* !a on u8
BitNot(a) == (U8 - 1) - a

\* a | b on u8
BitOr(a, b) ==
  LET f[i \in 0..NumPins] ==
        IF i = NumPins THEN 0
        ELSE (IF Bit(a, i) = 1 \/ Bit(b, i) = 1 THEN 2 ^ i ELSE 0) + f[i + 1]
  IN f[0]

\* a & b on u8
BitAnd(a, b) ==
  LET f[i \in 0..NumPins] ==
        IF i = NumPins THEN 0
        ELSE (IF Bit(a, i) = 1 /\ Bit(b, i) = 1 THEN 2 ^ i ELSE 0) + f[i + 1]
  IN f[0]

\* ------------------------------------------------------------------------
\* The device behind Rc<RefCell<Ex>>: register file, bus log of the current
\* call, and the fault the bus will produce (at = 0: none; at = k: the k-th
\* transaction of the call fails with `code`).
\* ------------------------------------------------------------------------
NoFault == [at |-> 0, code |-> "none"]

Borrow(rs, fault) == [regs |-> rs, log |-> <<>>, fault |-> fault]

Fails(dev) == Len(dev.log) + 1 = dev.fault.at

\* Expander::read_byte(register, &mut buf): on success buf holds the register,
\* on failure buf is left as it was and the device error is returned.
read_byte(dev, register, buf) ==
  IF Fails(dev)
  THEN [ok  |-> FALSE, err |-> dev.fault.code, buf |-> buf,
        dev |-> [dev EXCEPT !.log = Append(@,
                   [acc |-> "read", reg |-> register, val |-> buf,
                    err |-> dev.fault.code])]]
  ELSE [ok  |-> TRUE, err |-> "none", buf |-> dev.regs[register],
        dev |-> [dev EXCEPT !.log = Append(@,
                   [acc |-> "read", reg |-> register, val |-> dev.regs[register],
                    err |-> "none"])]]

\* Expander::write_byte(register, value): on success the register holds the
\* value, on failure the register is left as it was.
write_byte(dev, register, value) ==
  IF Fails(dev)
  THEN [ok  |-> FALSE, err |-> dev.fault.code,
        dev |-> [dev EXCEPT !.log = Append(@,
                   [acc |-> "write", reg |-> register, val |-> value,
                    err |-> dev.fault.code])]]
  ELSE [ok  |-> TRUE, err |-> "none",
        dev |-> [dev EXCEPT !.regs[register] = value,
                            !.log = Append(@,
                   [acc |-> "write", reg |-> register, val |-> value,
                    err |-> "none"])]]

\* ------------------------------------------------------------------------
\* Results of a call
\* ------------------------------------------------------------------------
InPin(bank, pin)  == [role |-> "input",  bank |-> bank, pin |-> pin]
OutPin(bank, pin) == [role |-> "output", bank |-> bank, pin |-> pin]

\* Ok(()) and Ok(bool)
OkUnit(dev)      == [res |-> "Ok", err |-> "none", val |-> FALSE, obj |-> <<>>, dev |-> dev]
OkBool(dev, b)   == [res |-> "Ok", err |-> "none", val |-> b, obj |-> <<>>, dev |-> dev]
\* Ok(pin object)
OkPin(dev, p)    == [res |-> "Ok", err |-> "none", val |-> FALSE, obj |-> <<p>>, dev |-> dev]
\* Err(e) as `?` returns it
Err(dev, e)      == [res |-> "Err", err |-> e, val |-> FALSE, obj |-> <<>>, dev |-> dev]
\* a failed assert!: the call unwinds before it touches the device
Panic(dev)       == [res |-> "Panic", err |-> "none", val |-> FALSE, obj |-> <<>>, dev |-> dev]

\* ------------------------------------------------------------------------
\* ExpanderInputPin
\* ------------------------------------------------------------------------
\* variant of ExpanderInputPin::new whose assert is off by one (pin <= 8)
ExpanderInputPin_new_AssertOffByOne(dev, bank, pin) ==
  IF ~(pin <= NumPins) THEN Panic(dev) ELSE
  LET register == IF bank = "Bank0" THEN "ConfigurationPort0"
                                    ELSE "ConfigurationPort1"
      r1 == read_byte(dev, register, 0)
  IN IF ~r1.ok THEN Err(r1.dev, r1.err) ELSE
     LET w1 == write_byte(r1.dev, register, BitOr(r1.buf, Shl(1, pin)))
     IN IF ~w1.ok THEN Err(w1.dev, w1.err)
        ELSE OkPin(w1.dev, InPin(bank, pin))

\* variant of ExpanderInputPin::new with the banks' registers exchanged
ExpanderInputPin_new_BanksSwapped(dev, bank, pin) ==
  IF ~(pin < NumPins) THEN Panic(dev) ELSE
  LET register == IF bank = "Bank0" THEN "ConfigurationPort1"
                                    ELSE "ConfigurationPort0"
      r1 == read_byte(dev, register, 0)
  IN IF ~r1.ok THEN Err(r1.dev, r1.err) ELSE
     LET w1 == write_byte(r1.dev, register, BitOr(r1.buf, Shl(1, pin)))
     IN IF ~w1.ok THEN Err(w1.dev, w1.err)
        ELSE OkPin(w1.dev, InPin(bank, pin))

\* ExpanderInputPin::new(expander, bank, pin)
ExpanderInputPin_new(dev, bank, pin) ==
  IF ~(pin < NumPins) THEN Panic(dev) ELSE
  LET register == IF bank = "Bank0" THEN "ConfigurationPort0"
                                    ELSE "ConfigurationPort1"
      r1 == read_byte(dev, register, 0)
  IN IF ~r1.ok THEN Err(r1.dev, r1.err) ELSE
     LET w1 == write_byte(r1.dev, register, BitOr(r1.buf, Shl(1, pin)))
     IN IF ~w1.ok THEN Err(w1.dev, w1.err)
        ELSE OkPin(w1.dev, InPin(bank, pin))

\* variant of set_polarity that writes the mask without the byte it read
set_polarity_Overwrites(dev, self, polarity) ==
  LET register == IF self.bank = "Bank0" THEN "PolarityInversionPort0"
                                         ELSE "PolarityInversionPort1"
      r1 == read_byte(dev, register, 0)
  IN IF ~r1.ok THEN Err(r1.dev, r1.err) ELSE
     LET w1 == IF polarity = "Normal"
               THEN write_byte(r1.dev, register, BitNot(Shl(1, self.pin)))
               ELSE write_byte(r1.dev, register, Shl(1, self.pin))
     IN IF ~w1.ok THEN Err(w1.dev, w1.err)
        ELSE OkUnit(w1.dev)

\* variant of set_polarity without `?` on the read: a failed read leaves
\* reg_val at 0x00 and the write goes ahead
set_polarity_IgnoresReadError(dev, self, polarity) ==
  LET register == IF self.bank = "Bank0" THEN "PolarityInversionPort0"
                                         ELSE "PolarityInversionPort1"
      r1 == read_byte(dev, register, 0)
      w1 == IF polarity = "Normal"
            THEN write_byte(r1.dev, register,
                            BitAnd(r1.buf, BitNot(Shl(1, self.pin))))
            ELSE write_byte(r1.dev, register,
                            BitOr(r1.buf, Shl(1, self.pin)))
  IN IF ~w1.ok THEN Err(w1.dev, w1.err)
     ELSE OkUnit(w1.dev)

\* ExpanderInputPin::set_polarity(&mut self, polarity)
set_polarity(dev, self, polarity) ==
  LET register == IF self.bank = "Bank0" THEN "PolarityInversionPort0"
                                         ELSE "PolarityInversionPort1"
      r1 == read_byte(dev, register, 0)
  IN IF ~r1.ok THEN Err(r1.dev, r1.err) ELSE
     LET w1 == IF polarity = "Normal"
               THEN write_byte(r1.dev, register,
                               BitAnd(r1.buf, BitNot(Shl(1, self.pin))))
               ELSE write_byte(r1.dev, register,
                               BitOr(r1.buf, Shl(1, self.pin)))
     IN IF ~w1.ok THEN Err(w1.dev, w1.err)
        ELSE OkUnit(w1.dev)

\* <ExpanderInputPin as InputPin>::is_high(&self)
is_high(dev, self) ==
  LET register == IF self.bank = "Bank0" THEN "InputPort0" ELSE "InputPort1"
      r1 == read_byte(dev, register, 0)
  IN IF ~r1.ok THEN Err(r1.dev, r1.err) ELSE
     IF BitAnd(Shr(r1.buf, self.pin), 1) = 1
     THEN OkBool(r1.dev, TRUE)
     ELSE OkBool(r1.dev, FALSE)

\* variant of is_low with the match arms of is_high
is_low_Unnegated(dev, self) ==
  LET register == IF self.bank = "Bank0" THEN "InputPort0" ELSE "InputPort1"
      r1 == read_byte(dev, register, 0)
  IN IF ~r1.ok THEN Err(r1.dev, r1.err) ELSE
     IF BitAnd(Shr(r1.buf, self.pin), 1) = 1
     THEN OkBool(r1.dev, TRUE)
     ELSE OkBool(r1.dev, FALSE)

\* <ExpanderInputPin as InputPin>::is_low(&self)
is_low(dev, self) ==
  LET register == IF self.bank = "Bank0" THEN "InputPort0" ELSE "InputPort1"
      r1 == read_byte(dev, register, 0)
  IN IF ~r1.ok THEN Err(r1.dev, r1.err) ELSE
     IF BitAnd(Shr(r1.buf, self.pin), 1) = 1
     THEN OkBool(r1.dev, FALSE)
     ELSE OkBool(r1.dev, TRUE)

\* <ExpanderInputPin as IoPin>::into_input_pin(self)
Input_into_input_pin(dev, self) == OkPin(dev, self)

\* variant of Input::into_output_pin that writes the configuration mask
\* without the byte it read
Input_into_output_pin_ClobbersConfiguration(dev, self, state) ==
  LET cp_register == IF self.bank = "Bank0" THEN "ConfigurationPort0"
                                            ELSE "ConfigurationPort1"
      op_register == IF self.bank = "Bank0" THEN "OutputPort0"
                                            ELSE "OutputPort1"
      r1 == read_byte(dev, op_register, 0)
  IN IF ~r1.ok THEN Err(r1.dev, r1.err) ELSE
     LET w1 == IF state = "High"
               THEN write_byte(r1.dev, op_register,
                               BitOr(r1.buf, Shl(1, self.pin)))
               ELSE write_byte(r1.dev, op_register,
                               BitAnd(r1.buf, BitNot(Shl(1, self.pin))))
     IN IF ~w1.ok THEN Err(w1.dev, w1.err) ELSE
        LET r2 == read_byte(w1.dev, cp_register, r1.buf)
        IN IF ~r2.ok THEN Err(r2.dev, r2.err) ELSE
           LET w2 == write_byte(r2.dev, cp_register, BitNot(Shl(1, self.pin)))
           IN IF ~w2.ok THEN Err(w2.dev, w2.err)
              ELSE OkPin(w2.dev, OutPin(self.bank, self.pin))

\* variant of Input::into_output_pin that programs the configuration
\* register before the output register
Input_into_output_pin_DirectionFirst(dev, self, state) ==
  LET cp_register == IF self.bank = "Bank0" THEN "ConfigurationPort0"
                                            ELSE "ConfigurationPort1"
      op_register == IF self.bank = "Bank0" THEN "OutputPort0"
                                            ELSE "OutputPort1"
      r1 == read_byte(dev, cp_register, 0)
  IN IF ~r1.ok THEN Err(r1.dev, r1.err) ELSE
     LET w1 == write_byte(r1.dev, cp_register,
                          BitAnd(r1.buf, BitNot(Shl(1, self.pin))))
     IN IF ~w1.ok THEN Err(w1.dev, w1.err) ELSE
        LET r2 == read_byte(w1.dev, op_register, r1.buf)
        IN IF ~r2.ok THEN Err(r2.dev, r2.err) ELSE
           LET w2 == IF state = "High"
                     THEN write_byte(r2.dev, op_register,
                                     BitOr(r2.buf, Shl(1, self.pin)))
                     ELSE write_byte(r2.dev, op_register,
                                     BitAnd(r2.buf, BitNot(Shl(1, self.pin))))
           IN IF ~w2.ok THEN Err(w2.dev, w2.err)
              ELSE OkPin(w2.dev, OutPin(self.bank, self.pin))

\* <ExpanderInputPin as IoPin>::into_output_pin(self, state)
Input_into_output_pin(dev, self, state) ==
  LET cp_register == IF self.bank = "Bank0" THEN "ConfigurationPort0"
                                            ELSE "ConfigurationPort1"
      op_register == IF self.bank = "Bank0" THEN "OutputPort0"
                                            ELSE "OutputPort1"
      r1 == read_byte(dev, op_register, 0)
  IN IF ~r1.ok THEN Err(r1.dev, r1.err) ELSE
     LET w1 == IF state = "High"
               THEN write_byte(r1.dev, op_register,
                               BitOr(r1.buf, Shl(1, self.pin)))
               ELSE write_byte(r1.dev, op_register,
                               BitAnd(r1.buf, BitNot(Shl(1, self.pin))))
     IN IF ~w1.ok THEN Err(w1.dev, w1.err) ELSE
        LET r2 == read_byte(w1.dev, cp_register, r1.buf)
        IN IF ~r2.ok THEN Err(r2.dev, r2.err) ELSE
           LET w2 == write_byte(r2.dev, cp_register,
                                BitAnd(r2.buf, BitNot(Shl(1, self.pin))))
           IN IF ~w2.ok THEN Err(w2.dev, w2.err)
              ELSE OkPin(w2.dev, OutPin(self.bank, self.pin))

\* ------------------------------------------------------------------------
\* ExpanderOutputPin
\* ------------------------------------------------------------------------
\* variant of ExpanderOutputPin::new that writes the configuration mask
\* without the byte it read
ExpanderOutputPin_new_ClobbersConfiguration(dev, bank, pin, state) ==
  IF ~(pin < NumPins) THEN Panic(dev) ELSE
  LET cp_register == IF bank = "Bank0" THEN "ConfigurationPort0"
                                       ELSE "ConfigurationPort1"
      op_register == IF bank = "Bank0" THEN "OutputPort0"
                                       ELSE "OutputPort1"
      r1 == read_byte(dev, op_register, 0)
  IN IF ~r1.ok THEN Err(r1.dev, r1.err) ELSE
     LET w1 == IF state = "High"
               THEN write_byte(r1.dev, op_register, BitOr(r1.buf, Shl(1, pin)))
               ELSE write_byte(r1.dev, op_register,
                               BitAnd(r1.buf, BitNot(Shl(1, pin))))
     IN IF ~w1.ok THEN Err(w1.dev, w1.err) ELSE
        LET r2 == read_byte(w1.dev, cp_register, r1.buf)
        IN IF ~r2.ok THEN Err(r2.dev, r2.err) ELSE
           LET w2 == write_byte(r2.dev, cp_register, BitNot(Shl(1, pin)))
           IN IF ~w2.ok THEN Err(w2.dev, w2.err)
              ELSE OkPin(w2.dev, OutPin(bank, pin))

\* variant of ExpanderOutputPin::new without the assert
ExpanderOutputPin_new_NoAssert(dev, bank, pin, state) ==
  LET cp_register == IF bank = "Bank0" THEN "ConfigurationPort0"
                                       ELSE "ConfigurationPort1"
      op_register == IF bank = "Bank0" THEN "OutputPort0"
                                       ELSE "OutputPort1"
      r1 == read_byte(dev, op_register, 0)
  IN IF ~r1.ok THEN Err(r1.dev, r1.err) ELSE
     LET w1 == IF state = "High"
               THEN write_byte(r1.dev, op_register, BitOr(r1.buf, Shl(1, pin)))
               ELSE write_byte(r1.dev, op_register,
                               BitAnd(r1.buf, BitNot(Shl(1, pin))))
     IN IF ~w1.ok THEN Err(w1.dev, w1.err) ELSE
        LET r2 == read_byte(w1.dev, cp_register, r1.buf)
        IN IF ~r2.ok THEN Err(r2.dev, r2.err) ELSE
           LET w2 == write_byte(r2.dev, cp_register,
                                BitAnd(r2.buf, BitNot(Shl(1, pin))))
           IN IF ~w2.ok THEN Err(w2.dev, w2.err)
              ELSE OkPin(w2.dev, OutPin(bank, pin))

\* variant of ExpanderOutputPin::new with the arms of `if let High` exchanged
ExpanderOutputPin_new_LevelSwapped(dev, bank, pin, state) ==
  IF ~(pin < NumPins) THEN Panic(dev) ELSE
  LET cp_register == IF bank = "Bank0" THEN "ConfigurationPort0"
                                       ELSE "ConfigurationPort1"
      op_register == IF bank = "Bank0" THEN "OutputPort0"
                                       ELSE "OutputPort1"
      r1 == read_byte(dev, op_register, 0)
  IN IF ~r1.ok THEN Err(r1.dev, r1.err) ELSE
     LET w1 == IF state = "High"
               THEN write_byte(r1.dev, op_register,
                               BitAnd(r1.buf, BitNot(Shl(1, pin))))
               ELSE write_byte(r1.dev, op_register, BitOr(r1.buf, Shl(1, pin)))
     IN IF ~w1.ok THEN Err(w1.dev, w1.err) ELSE
        LET r2 == read_byte(w1.dev, cp_register, r1.buf)
        IN IF ~r2.ok THEN Err(r2.dev, r2.err) ELSE
           LET w2 == write_byte(r2.dev, cp_register,
                                BitAnd(r2.buf, BitNot(Shl(1, pin))))
           IN IF ~w2.ok THEN Err(w2.dev, w2.err)
              ELSE OkPin(w2.dev, OutPin(bank, pin))

\* variant of ExpanderOutputPin::new that programs the configuration
\* register before the output register
ExpanderOutputPin_new_DirectionFirst(dev, bank, pin, state) ==
  IF ~(pin < NumPins) THEN Panic(dev) ELSE
  LET cp_register == IF bank = "Bank0" THEN "ConfigurationPort0"
                                       ELSE "ConfigurationPort1"
      op_register == IF bank = "Bank0" THEN "OutputPort0"
                                       ELSE "OutputPort1"
      r1 == read_byte(dev, cp_register, 0)
  IN IF ~r1.ok THEN Err(r1.dev, r1.err) ELSE
     LET w1 == write_byte(r1.dev, cp_register, BitAnd(r1.buf, BitNot(Shl(1, pin))))
     IN IF ~w1.ok THEN Err(w1.dev, w1.err) ELSE
        LET r2 == read_byte(w1.dev, op_register, r1.buf)
        IN IF ~r2.ok THEN Err(r2.dev, r2.err) ELSE
           LET w2 == IF state = "High"
                     THEN write_byte(r2.dev, op_register,
                                     BitOr(r2.buf, Shl(1, pin)))
                     ELSE write_byte(r2.dev, op_register,
                                     BitAnd(r2.buf, BitNot(Shl(1, pin))))
           IN IF ~w2.ok THEN Err(w2.dev, w2.err)
              ELSE OkPin(w2.dev, OutPin(bank, pin))

\* ExpanderOutputPin::new(expander, bank, pin, state)
ExpanderOutputPin_new(dev, bank, pin, state) ==
  IF ~(pin < NumPins) THEN Panic(dev) ELSE
  LET cp_register == IF bank = "Bank0" THEN "ConfigurationPort0"
                                       ELSE "ConfigurationPort1"
      op_register == IF bank = "Bank0" THEN "OutputPort0"
                                       ELSE "OutputPort1"
      r1 == read_byte(dev, op_register, 0)
  IN IF ~r1.ok THEN Err(r1.dev, r1.err) ELSE
     LET w1 == IF state = "High"
               THEN write_byte(r1.dev, op_register, BitOr(r1.buf, Shl(1, pin)))
               ELSE write_byte(r1.dev, op_register,
                               BitAnd(r1.buf, BitNot(Shl(1, pin))))
     IN IF ~w1.ok THEN Err(w1.dev, w1.err) ELSE
        LET r2 == read_byte(w1.dev, cp_register, r1.buf)
        IN IF ~r2.ok THEN Err(r2.dev, r2.err) ELSE
           LET w2 == write_byte(r2.dev, cp_register,
                                BitAnd(r2.buf, BitNot(Shl(1, pin))))
           IN IF ~w2.ok THEN Err(w2.dev, w2.err)
              ELSE OkPin(w2.dev, OutPin(bank, pin))

\* variant of set_low that writes the mask without the byte it read
set_low_Overwrites(dev, self) ==
  LET register == IF self.bank = "Bank0" THEN "OutputPort0" ELSE "OutputPort1"
      r1 == read_byte(dev, register, 0)
  IN IF ~r1.ok THEN Err(r1.dev, r1.err) ELSE
     LET w1 == write_byte(r1.dev, register, BitNot(Shl(1, self.pin)))
     IN IF ~w1.ok THEN Err(w1.dev, w1.err)
        ELSE OkUnit(w1.dev)

\* <ExpanderOutputPin as OutputPin>::set_low(&mut self)
set_low(dev, self) ==
  LET register == IF self.bank = "Bank0" THEN "OutputPort0" ELSE "OutputPort1"
      r1 == read_byte(dev, register, 0)
  IN IF ~r1.ok THEN Err(r1.dev, r1.err) ELSE
     LET w1 == write_byte(r1.dev, register,
                          BitAnd(r1.buf, BitNot(Shl(1, self.pin))))
     IN IF ~w1.ok THEN Err(w1.dev, w1.err)
        ELSE OkUnit(w1.dev)

\* variant of set_high that reads the output register and writes the
\* register the code selects
set_high_ReadsOutput(dev, self) ==
  LET register == IF self.bank = "Bank0" THEN "InputPort0" ELSE "InputPort1"
      op_register == IF self.bank = "Bank0" THEN "OutputPort0" ELSE "OutputPort1"
      r1 == read_byte(dev, op_register, 0)
  IN IF ~r1.ok THEN Err(r1.dev, r1.err) ELSE
     LET w1 == write_byte(r1.dev, register, BitOr(r1.buf, Shl(1, self.pin)))
     IN IF ~w1.ok THEN Err(w1.dev, w1.err)
        ELSE OkUnit(w1.dev)

\* <ExpanderOutputPin as OutputPin>::set_high(&mut self)
\* (the code selects InputPort0 / InputPort1 here)
set_high(dev, self) ==
  LET register == IF self.bank = "Bank0" THEN "InputPort0" ELSE "InputPort1"
      r1 == read_byte(dev, register, 0)
  IN IF ~r1.ok THEN Err(r1.dev, r1.err) ELSE
     LET w1 == write_byte(r1.dev, register, BitOr(r1.buf, Shl(1, self.pin)))
     IN IF ~w1.ok THEN Err(w1.dev, w1.err)
        ELSE OkUnit(w1.dev)

\* variant of Output::into_input_pin that first clears the pin's bit of the
\* output register
Output_into_input_pin_ClearsOutput(dev, self) ==
  LET register == IF self.bank = "Bank0" THEN "ConfigurationPort0"
                                         ELSE "ConfigurationPort1"
      op_register == IF self.bank = "Bank0" THEN "OutputPort0"
                                            ELSE "OutputPort1"
      r0 == read_byte(dev, op_register, 0)
  IN IF ~r0.ok THEN Err(r0.dev, r0.err) ELSE
     LET w0 == write_byte(r0.dev, op_register,
                          BitAnd(r0.buf, BitNot(Shl(1, self.pin))))
     IN IF ~w0.ok THEN Err(w0.dev, w0.err) ELSE
        LET r1 == read_byte(w0.dev, register, r0.buf)
        IN IF ~r1.ok THEN Err(r1.dev, r1.err) ELSE
           LET w1 == write_byte(r1.dev, register,
                                BitOr(r1.buf, Shl(1, self.pin)))
           IN IF ~w1.ok THEN Err(w1.dev, w1.err)
              ELSE OkPin(w1.dev, InPin(self.bank, self.pin))

\* variant of Output::into_input_pin that selects the output register
Output_into_input_pin_WrongRegister(dev, self) ==
  LET register == IF self.bank = "Bank0" THEN "OutputPort0"
                                         ELSE "OutputPort1"
      r1 == read_byte(dev, register, 0)
  IN IF ~r1.ok THEN Err(r1.dev, r1.err) ELSE
     LET w1 == write_byte(r1.dev, register, BitOr(r1.buf, Shl(1, self.pin)))
     IN IF ~w1.ok THEN Err(w1.dev, w1.err)
        ELSE OkPin(w1.dev, InPin(self.bank, self.pin))

\* <ExpanderOutputPin as IoPin>::into_input_pin(self)
Output_into_input_pin(dev, self) ==
  LET register == IF self.bank = "Bank0" THEN "ConfigurationPort0"
                                         ELSE "ConfigurationPort1"
      r1 == read_byte(dev, register, 0)
  IN IF ~r1.ok THEN Err(r1.dev, r1.err) ELSE
     LET w1 == write_byte(r1.dev, register, BitOr(r1.buf, Shl(1, self.pin)))
     IN IF ~w1.ok THEN Err(w1.dev, w1.err)
        ELSE OkPin(w1.dev, InPin(self.bank, self.pin))

\* variant of Output::into_output_pin with the banks' registers exchanged
Output_into_output_pin_BanksSwapped(dev, self, state) ==
  LET register == IF self.bank = "Bank0" THEN "OutputPort1" ELSE "OutputPort0"
      r1 == read_byte(dev, register, 0)
  IN IF ~r1.ok THEN Err(r1.dev, r1.err) ELSE
     LET w1 == IF state = "High"
               THEN write_byte(r1.dev, register, BitOr(r1.buf, Shl(1, self.pin)))
               ELSE write_byte(r1.dev, register,
                               BitAnd(r1.buf, BitNot(Shl(1, self.pin))))
     IN IF ~w1.ok THEN Err(w1.dev, w1.err)
        ELSE OkPin(w1.dev, self)

\* variant of Output::into_output_pin that also re-programs the
\* configuration register, as Input::into_output_pin does
Output_into_output_pin_Reconfigures(dev, self, state) ==
  LET register == IF self.bank = "Bank0" THEN "OutputPort0" ELSE "OutputPort1"
      cp_register == IF self.bank = "Bank0" THEN "ConfigurationPort0"
                                            ELSE "ConfigurationPort1"
      r1 == read_byte(dev, register, 0)
  IN IF ~r1.ok THEN Err(r1.dev, r1.err) ELSE
     LET w1 == IF state = "High"
               THEN write_byte(r1.dev, register, BitOr(r1.buf, Shl(1, self.pin)))
               ELSE write_byte(r1.dev, register,
                               BitAnd(r1.buf, BitNot(Shl(1, self.pin))))
     IN IF ~w1.ok THEN Err(w1.dev, w1.err) ELSE
        LET r2 == read_byte(w1.dev, cp_register, r1.buf)
        IN IF ~r2.ok THEN Err(r2.dev, r2.err) ELSE
           LET w2 == write_byte(r2.dev, cp_register,
                                BitAnd(r2.buf, BitNot(Shl(1, self.pin))))
           IN IF ~w2.ok THEN Err(w2.dev, w2.err)
              ELSE OkPin(w2.dev, self)

\* variant of Output::into_output_pin that skips the read: reg_val is still
\* 0x00 when the byte to write is computed
Output_into_output_pin_NoRead(dev, self, state) ==
  LET register == IF self.bank = "Bank0" THEN "OutputPort0" ELSE "OutputPort1"
      w1 == IF state = "High"
            THEN write_byte(dev, register, BitOr(0, Shl(1, self.pin)))
            ELSE write_byte(dev, register,
                            BitAnd(0, BitNot(Shl(1, self.pin))))
  IN IF ~w1.ok THEN Err(w1.dev, w1.err)
     ELSE OkPin(w1.dev, self)

\* <ExpanderOutputPin as IoPin>::into_output_pin(self, state)
Output_into_output_pin(dev, self, state) ==
  LET register == IF self.bank = "Bank0" THEN "OutputPort0" ELSE "OutputPort1"
      r1 == read_byte(dev, register, 0)
  IN IF ~r1.ok THEN Err(r1.dev, r1.err) ELSE
     LET w1 == IF state = "High"
               THEN write_byte(r1.dev, register, BitOr(r1.buf, Shl(1, self.pin)))
               ELSE write_byte(r1.dev, register,
                               BitAnd(r1.buf, BitNot(Shl(1, self.pin))))
     IN IF ~w1.ok THEN Err(w1.dev, w1.err)
        ELSE OkPin(w1.dev, self)

\* ------------------------------------------------------------------------
\* State
\* ------------------------------------------------------------------------
VARIABLES
  regs,     \* the device's register file: Register -> u8
  pins,     \* bag of the live pin objects the caller holds
  log,      \* bus transactions of the last call, in order
  pre,      \* register file when the last call started
  pre2,     \* register file when the call before it started
  last,     \* the last call: operation, receiver, argument, result
  prev,     \* the call before it
  born,     \* (bank, pin) bits for which a constructor has returned a pin
  reborn,   \* a constructor has returned a pin for a bit already in born
  home,     \* <<bank, pin>> of the caller's first constructor call, or <<>>
  nops,     \* calls made
  nnew,     \* constructor calls made
  faults    \* device transactions that have failed

vars == <<regs, pins, log, pre, pre2, last, prev, born, reborn, home, nops, nnew, faults>>

\* Bound: the bytes a register can hold at the start (0x5A and 0xA5, so that
\* every bit has a neighbour of the other value).
InitBytes == {90, 165}

NoCall == [op |-> "none", bank |-> "Bank0", pin |-> 0, arg |-> "none",
           res |-> "none", err |-> "none", val |-> FALSE, obj |-> <<>>]

\* The caller has built the expander and holds no pin.  Bank 0 holds any
\* combination of the start bytes, bank 1 the complement of bank 0.
Init ==
  /\ \E c \in InitBytes, p \in InitBytes, o \in InitBytes, i \in InitBytes :
       regs = [r \in Register |->
                 CASE r = "ConfigurationPort0"     -> c
                   [] r = "ConfigurationPort1"     -> BitNot(c)
                   [] r = "PolarityInversionPort0" -> p
                   [] r = "PolarityInversionPort1" -> BitNot(p)
                   [] r = "OutputPort0"            -> o
                   [] r = "OutputPort1"            -> BitNot(o)
                   [] r = "InputPort0"             -> i
                   [] r = "InputPort1"             -> BitNot(i)]
  /\ pins = EmptyBag
  /\ log = <<>>
  /\ pre = regs
  /\ pre2 = regs
  /\ last = NoCall
  /\ prev = NoCall
  /\ born = {}
  /\ reborn = FALSE
  /\ home = <<>>
  /\ nops = 0
  /\ nnew = 0
  /\ faults = 0

\* the faults the bus can produce in a call of n transactions
FaultsFor(n) ==
  {NoFault} \cup
  (IF faults < MaxFaults
   THEN {[at |-> k, code |-> e] : k \in 1..n, e \in DeviceError}
   ELSE {})

\* The bits the caller asks a constructor for: any bank and pin argument in
\* its first constructor call; later the same bit, the next bit of the same
\* bank, or the same pin of the other bank.
OtherBank(bank) == IF bank = "Bank0" THEN "Bank1" ELSE "Bank0"

Asked ==
  IF home = <<>>
  THEN GPIOBank \X (0..(NumPins + PinSlack - 1))
  ELSE {home, <<home[1], (home[2] + 1) % NumPins>>, <<OtherBank(home[1]), home[2]>>}

\* the caller can make another call: it has not panicked
CanCall == last.res # "Panic" /\ nops < MaxOps

One(p) == SetToBag({p})

LivePins == BagToSet(pins)

\* the call returns: the device is released, the call and its log recorded
Return(op, bank, pin, arg, r, newpins) ==
  /\ regs' = r.dev.regs
  /\ log' = r.dev.log
  /\ pre' = regs
  /\ pre2' = pre
  /\ prev' = last
  /\ last' = [op |-> op, bank |-> bank, pin |-> pin, arg |-> arg,
              res |-> r.res, err |-> r.err, val |-> r.val, obj |-> r.obj]
  /\ pins' = newpins
  /\ nops' = nops + 1
  /\ faults' = faults + (IF r.res = "Err" THEN 1 ELSE 0)

\* variant of a constructor's return with a registry of live pins: the
\* older pin objects of the same bit are invalidated
Constructed_InvalidatesStale(op, bank, pin, arg, r) ==
  /\ Return(op, bank, pin, arg, r,
            IF r.res = "Ok"
            THEN [p \in {q \in DOMAIN pins : ~(q.bank = bank /\ q.pin = pin)}
                    |-> pins[p]] (+) One(r.obj[1])
            ELSE pins)
  /\ nnew' = nnew + 1
  /\ born' = IF r.res = "Ok" THEN born \cup {<<bank, pin>>} ELSE born
  /\ reborn' = (reborn \/ (r.res = "Ok" /\ <<bank, pin>> \in born))
  /\ home' = IF home = <<>> THEN <<bank, pin>> ELSE home

\* a constructor returns: a pin object is added when it returned one
Constructed(op, bank, pin, arg, r) ==
  /\ Return(op, bank, pin, arg, r,
            IF r.res = "Ok" THEN pins (+) One(r.obj[1]) ELSE pins)
  /\ nnew' = nnew + 1
  /\ born' = IF r.res = "Ok" THEN born \cup {<<bank, pin>>} ELSE born
  /\ reborn' = (reborn \/ (r.res = "Ok" /\ <<bank, pin>> \in born))
  /\ home' = IF home = <<>> THEN <<bank, pin>> ELSE home

\* a method taking &self or &mut self returns: the pin stays with the caller
Called(op, self, arg, r) ==
  /\ Return(op, self.bank, self.pin, arg, r, pins)
  /\ UNCHANGED <<nnew, born, reborn, home>>

\* a transition taking self returns: self is consumed, the result (if any)
\* is the caller's new pin
Moved(op, self, arg, r) ==
  /\ Return(op, self.bank, self.pin, arg, r,
            IF r.res = "Ok" THEN (pins (-) One(self)) (+) One(r.obj[1])
                            ELSE pins (-) One(self))
  /\ UNCHANGED <<nnew, born, reborn, home>>

\* ------------------------------------------------------------------------
\* Actions: one per operation of the public API
\* ------------------------------------------------------------------------
NewInput ==
  /\ CanCall /\ nnew < MaxNew
  /\ \E bit \in Asked, f \in FaultsFor(2) :
       Constructed("InputPin::new", bit[1], bit[2], "none",
                   ExpanderInputPin_new(Borrow(regs, f), bit[1], bit[2]))

NewOutput ==
  /\ CanCall /\ nnew < MaxNew
  /\ \E bit \in Asked, state \in PinState, f \in FaultsFor(4) :
       Constructed("OutputPin::new", bit[1], bit[2], state,
                   ExpanderOutputPin_new(Borrow(regs, f), bit[1], bit[2], state))

SetPolarity ==
  /\ CanCall
  /\ \E self \in LivePins, polarity \in Polarity, f \in FaultsFor(2) :
       /\ self.role = "input"
       /\ Called("set_polarity", self, polarity,
                 set_polarity(Borrow(regs, f), self, polarity))

IsHigh ==
  /\ CanCall
  /\ \E self \in LivePins, f \in FaultsFor(1) :
       /\ self.role = "input"
       /\ Called("is_high", self, "none", is_high(Borrow(regs, f), self))

IsLow ==
  /\ CanCall
  /\ \E self \in LivePins, f \in FaultsFor(1) :
       /\ self.role = "input"
       /\ Called("is_low", self, "none", is_low(Borrow(regs, f), self))

InputIntoInput ==
  /\ CanCall
  /\ \E self \in LivePins, f \in FaultsFor(1) :
       /\ self.role = "input"
       /\ Moved("Input::into_input_pin", self, "none",
                Input_into_input_pin(Borrow(regs, f), self))

InputIntoOutput ==
  /\ CanCall
  /\ \E self \in LivePins, state \in PinState, f \in FaultsFor(4) :
       /\ self.role = "input"
       /\ Moved("Input::into_output_pin", self, state,
                Input_into_output_pin(Borrow(regs, f), self, state))

SetLow ==
  /\ CanCall
  /\ \E self \in LivePins, f \in FaultsFor(2) :
       /\ self.role = "output"
       /\ Called("set_low", self, "none", set_low(Borrow(regs, f), self))

SetHigh ==
  /\ CanCall
  /\ \E self \in LivePins, f \in FaultsFor(2) :
       /\ self.role = "output"
       /\ Called("set_high", self, "none", set_high(Borrow(regs, f), self))

OutputIntoInput ==
  /\ CanCall
  /\ \E self \in LivePins, f \in FaultsFor(2) :
       /\ self.role = "output"
       /\ Moved("Output::into_input_pin", self, "none",
                Output_into_input_pin(Borrow(regs, f), self))

OutputIntoOutput ==
  /\ CanCall
  /\ \E self \in LivePins, state \in PinState, f \in FaultsFor(2) :
       /\ self.role = "output"
       /\ Moved("Output::into_output_pin", self, state,
                Output_into_output_pin(Borrow(regs, f), self, state))

Next ==
  \/ NewInput
  \/ NewOutput
  \/ SetPolarity
  \/ IsHigh
  \/ IsLow
  \/ InputIntoInput
  \/ InputIntoOutput
  \/ SetLow
  \/ SetHigh
  \/ OutputIntoInput
  \/ OutputIntoOutput

Spec == Init /\ [][Next]_vars

\* ------------------------------------------------------------------------
\* Vocabulary of the properties
\* ------------------------------------------------------------------------
\* the register of each function for a bank, as the chip names them
ConfigurationOf(bank) == IF bank = "Bank0" THEN "ConfigurationPort0" ELSE "ConfigurationPort1"
PolarityOf(bank)      == IF bank = "Bank0" THEN "PolarityInversionPort0" ELSE "PolarityInversionPort1"
OutputOf(bank)        == IF bank = "Bank0" THEN "OutputPort0" ELSE "OutputPort1"
InputOf(bank)         == IF bank = "Bank0" THEN "InputPort0" ELSE "InputPort1"

LevelBit(state) == IF state = "High" THEN 1 ELSE 0

\* the last call was op and returned Ok
Succeeded(op) == last.op = op /\ last.res = "Ok"

\* entry k of the log is a read (write) of register r that the device accepted
ReadOk(k, r)  == log[k].acc = "read"  /\ log[k].reg = r /\ log[k].err = "none"
WriteOk(k, r) == log[k].acc = "write" /\ log[k].reg = r /\ log[k].err = "none"

\* the register file after the first k transactions of the last call
RECURSIVE RegsAfter(_)
RegsAfter(k) ==
  IF k <= 0 THEN pre
  ELSE IF log[k].acc = "write" /\ log[k].err = "none"
       THEN [RegsAfter(k - 1) EXCEPT ![log[k].reg] = log[k].val]
       ELSE RegsAfter(k - 1)

\* every bit of register r other than bit i is the same in files a and b
SiblingsKept(a, b, r, i) ==
  \A j \in 0..(NumPins - 1) : j # i => Bit(a[r], j) = Bit(b[r], j)

\* ------------------------------------------------------------------------
\* Properties
\* ------------------------------------------------------------------------
\* C1: while no bit has had a second pin object made by a constructor, every
\* live input pin has its bit set in its bank's configuration register and
\* every live output pin has it clear, whatever calls succeeded or failed.
C1_RoleMatchesConfiguration ==
  ~reborn =>
    \A p \in LivePins :
      Bit(regs[ConfigurationOf(p.bank)], p.pin) = (IF p.role = "input" THEN 1 ELSE 0)

\* C1 witness: two pins share the device, one of them just became an output
\* pin through a transition, and its bit was set before.
C1_Witness ==
  /\ ~reborn
  /\ BagCardinality(pins) = 2
  /\ Succeeded("Input::into_output_pin")
  /\ OutPin(last.bank, last.pin) \in LivePins
  /\ Bit(pre[ConfigurationOf(last.bank)], last.pin) = 1
  /\ Bit(regs[ConfigurationOf(last.bank)], last.pin) = 0

\* C2: a successful set_high / set_low reads and then writes the bank's
\* output register and nothing else, leaving the pin's bit 1 / 0 there.
C2_SetLevelUsesOutputRegister ==
  (Succeeded("set_high") \/ Succeeded("set_low")) =>
    /\ Len(log) = 2
    /\ ReadOk(1, OutputOf(last.bank))
    /\ WriteOk(2, OutputOf(last.bank))
    /\ Bit(regs[OutputOf(last.bank)], last.pin) =
         (IF last.op = "set_high" THEN 1 ELSE 0)

\* C3: a successful OutputPin::new(b, i, s) ends with bit i of b's
\* configuration register clear and bit i of b's output register equal to s.
C3_NewOutputProgramsBoth ==
  Succeeded("OutputPin::new") =>
    /\ Bit(regs[ConfigurationOf(last.bank)], last.pin) = 0
    /\ Bit(regs[OutputOf(last.bank)], last.pin) = LevelBit(last.arg)

\* C3 witness: the constructor changed both bits.
C3_Witness ==
  /\ Succeeded("OutputPin::new")
  /\ last.arg = "High"
  /\ Bit(pre[ConfigurationOf(last.bank)], last.pin) = 1
  /\ Bit(pre[OutputOf(last.bank)], last.pin) = 0
  /\ Bit(regs[OutputOf(last.bank)], last.pin) = 1

\* C4: a successful InputPin::new(b, i) ends with bit i of b's configuration
\* register set, after exactly one read and then one write of that register
\* and no other transaction.
C4_NewInputSetsConfiguration ==
  Succeeded("InputPin::new") =>
    /\ Bit(regs[ConfigurationOf(last.bank)], last.pin) = 1
    /\ Len(log) = 2
    /\ ReadOk(1, ConfigurationOf(last.bank))
    /\ WriteOk(2, ConfigurationOf(last.bank))
    /\ \A r \in Register \ {ConfigurationOf(last.bank)} : regs[r] = pre[r]

\* C4 witness: the constructor set a bit that was clear.
C4_Witness ==
  /\ Succeeded("InputPin::new")
  /\ Bit(pre[ConfigurationOf(last.bank)], last.pin) = 0
  /\ Bit(regs[ConfigurationOf(last.bank)], last.pin) = 1

\* C5: in OutputPin::new and Input::into_output_pin the output register is
\* written before the configuration register: at no point of the call, nor
\* after it, has the call cleared the pin's configuration bit while the
\* pin's output bit differs from the requested state.
C5_OutputBeforeDirection ==
  (last.op \in {"OutputPin::new", "Input::into_output_pin"} /\ last.res # "Panic") =>
    /\ regs = RegsAfter(Len(log))
    /\ \A k \in 1..Len(log) :
         WriteOk(k, ConfigurationOf(last.bank)) =>
           /\ \E j \in 1..(k - 1) : WriteOk(j, OutputOf(last.bank))
           /\ \A m \in k..Len(log) :
                Bit(RegsAfter(m)[OutputOf(last.bank)], last.pin) = LevelBit(last.arg)

\* C5 witness: the transition had to change the output bit and then cleared
\* the configuration bit.
C5_Witness ==
  /\ Succeeded("Input::into_output_pin")
  /\ last.arg = "Low"
  /\ Bit(pre[OutputOf(last.bank)], last.pin) = 1
  /\ Bit(pre[ConfigurationOf(last.bank)], last.pin) = 1
  /\ WriteOk(4, ConfigurationOf(last.bank))

\* C6: is_high returns true exactly when the pin's bit of the bank's input
\* register is 1, is_low called right after it returns the negation, and
\* neither call writes a register.
C6_LevelReads ==
  /\ Succeeded("is_high") =>
       /\ last.val = (Bit(regs[InputOf(last.bank)], last.pin) = 1)
       /\ regs = pre
       /\ \A k \in 1..Len(log) : log[k].acc = "read"
  /\ Succeeded("is_low") =>
       /\ regs = pre
       /\ \A k \in 1..Len(log) : log[k].acc = "read"
       /\ (prev.op = "is_high" /\ prev.res = "Ok"
           /\ prev.bank = last.bank /\ prev.pin = last.pin) =>
            last.val = ~prev.val

\* C6 witness: is_high returned true and the is_low after it returned false.
C6_Witness ==
  /\ Succeeded("is_low")
  /\ prev.op = "is_high" /\ prev.res = "Ok"
  /\ prev.bank = last.bank /\ prev.pin = last.pin
  /\ prev.val = TRUE
  /\ last.val = FALSE

\* set_polarity(Inverse) and then set_polarity(Normal) on the same pin have
\* both just succeeded
PolarityRoundTrip ==
  /\ Succeeded("set_polarity") /\ last.arg = "Normal"
  /\ prev.op = "set_polarity" /\ prev.res = "Ok" /\ prev.arg = "Inverse"
  /\ prev.bank = last.bank /\ prev.pin = last.pin

\* C7 as stated: set_polarity(Inverse) followed by set_polarity(Normal)
\* restores the pin's bit of the polarity register to its original value and
\* leaves the other bits unchanged.
C7_PolarityRestored ==
  PolarityRoundTrip =>
    /\ Bit(regs[PolarityOf(last.bank)], last.pin) =
         Bit(pre2[PolarityOf(last.bank)], last.pin)
    /\ SiblingsKept(regs, pre2, PolarityOf(last.bank), last.pin)

\* C7 amended: set_polarity(Inverse) followed by set_polarity(Normal) leaves
\* the pin's bit of the polarity register clear, whatever it was before, and
\* leaves the other bits of that register unchanged.
C7_PolarityEndsNormal ==
  PolarityRoundTrip =>
    /\ Bit(regs[PolarityOf(last.bank)], last.pin) = 0
    /\ SiblingsKept(regs, pre2, PolarityOf(last.bank), last.pin)

\* C7 witness: the round trip was made on a pin whose polarity bit was set.
C7_Witness ==
  /\ PolarityRoundTrip
  /\ Bit(pre2[PolarityOf(last.bank)], last.pin) = 1
  /\ Bit(pre[PolarityOf(last.bank)], last.pin) = 1

\* into_output_pin(High) on an input pin and then into_input_pin on the
\* result have both just succeeded
DirectionRoundTrip ==
  /\ Succeeded("Output::into_input_pin")
  /\ prev.op = "Input::into_output_pin" /\ prev.res = "Ok" /\ prev.arg = "High"
  /\ prev.bank = last.bank /\ prev.pin = last.pin

\* C8: input pin -> into_output_pin(High) -> into_input_pin leaves the pin's
\* configuration bit set and every other bit of that configuration register
\* as it was before the round trip.
C8_DirectionRoundTrip ==
  DirectionRoundTrip =>
    /\ Bit(regs[ConfigurationOf(last.bank)], last.pin) = 1
    /\ SiblingsKept(regs, pre2, ConfigurationOf(last.bank), last.pin)

\* C8 witness: the round trip was made, the bit was clear in between, and
\* the register has set and clear sibling bits.
C8_Witness ==
  /\ DirectionRoundTrip
  /\ Bit(pre[ConfigurationOf(last.bank)], last.pin) = 0
  /\ \E j \in 0..(NumPins - 1) :
       j # last.pin /\ Bit(regs[ConfigurationOf(last.bank)], j) = 0
  /\ \E j \in 0..(NumPins - 1) :
       j # last.pin /\ Bit(regs[ConfigurationOf(last.bank)], j) = 1

\* C9: the first device transaction that fails is the last one of the call:
\* nothing is read or written after it, it is not repeated, and the call
\* returns the device's error; a call that returns Ok had no failure.
C9_FirstFailureEndsCall ==
  last.op # "none" =>
    /\ \A k \in 1..(Len(log) - 1) : log[k].err = "none"
    /\ (last.res = "Err") <=> (Len(log) > 0 /\ log[Len(log)].err # "none")
    /\ last.res = "Err" =>
         /\ last.err \in DeviceError
         /\ last.err = log[Len(log)].err

\* C9 witness: OutputPin::new failed on its third transaction, the read of
\* the configuration register, after writing the output register.
C9_Witness ==
  /\ last.op = "OutputPin::new"
  /\ last.res = "Err"
  /\ Len(log) = 3
  /\ WriteOk(2, OutputOf(last.bank))
  /\ log[3].acc = "read" /\ log[3].err = last.err

\* operations made of one read-modify-write
SingleRMW == {"InputPin::new", "set_polarity", "set_low", "set_high",
              "Output::into_input_pin", "Output::into_output_pin"}

\* C10: a failed call is not rolled back.  A failed single read-modify-write
\* leaves every register unchanged.  OutputPin::new or Input::into_output_pin
\* failing on the configuration register leaves the pin's output bit at the
\* requested state, the configuration register unchanged, and returns no pin;
\* failing on the output register it leaves every register unchanged.
C10_NoRollback ==
  last.res = "Err" =>
    /\ regs = RegsAfter(Len(log) - 1)
    /\ last.obj = <<>>
    /\ last.op \in SingleRMW => regs = pre
    /\ last.op \in {"OutputPin::new", "Input::into_output_pin"} =>
         IF log[Len(log)].reg = ConfigurationOf(last.bank)
         THEN /\ Bit(regs[OutputOf(last.bank)], last.pin) = LevelBit(last.arg)
              /\ SiblingsKept(regs, pre, OutputOf(last.bank), last.pin)
              /\ \A r \in Register \ {OutputOf(last.bank)} : regs[r] = pre[r]
         ELSE regs = pre

\* C10 witness: Input::into_output_pin failed on the write of the
\* configuration register and left the output bit changed.
C10_Witness ==
  /\ last.op = "Input::into_output_pin"
  /\ last.res = "Err"
  /\ Len(log) = 4
  /\ Bit(pre[OutputOf(last.bank)], last.pin) # LevelBit(last.arg)
  /\ Bit(regs[OutputOf(last.bank)], last.pin) = LevelBit(last.arg)
  /\ regs # pre

\* the last call was a constructor call
ConstructorCalled == last.op \in {"InputPin::new", "OutputPin::new"}

\* C11: a constructor called with pin index 8 or more fails its assert for
\* every bank and every register content: it touches no register and returns
\* neither a pin nor a device error.  Every index in 0..7 passes the assert.
C11_IndexEightPanics ==
  ConstructorCalled =>
    /\ last.pin >= 8 =>
         /\ last.res = "Panic"
         /\ log = <<>>
         /\ regs = pre
         /\ last.obj = <<>>
         /\ last.err = "none"
    /\ last.pin \in 0..7 => last.res # "Panic"

\* C11 witness: OutputPin::new was called on bank 1 with index 8.
C11_Witness ==
  /\ last.op = "OutputPin::new"
  /\ last.bank = "Bank1"
  /\ last.pin = 8
  /\ last.res = "Panic"

\* C12 as stated: a pin index is in [0,7), the constructors reject every
\* index outside that range.
C12_IndexBelowSeven ==
  (ConstructorCalled /\ last.pin \notin 0..6) => last.res = "Panic"

\* C12 amended: a pin index is in [0,8).  The constructors reject exactly the
\* indices outside that range, so every live pin object has an index in 0..7.
C12_IndexBelowEight ==
  /\ ConstructorCalled => ((last.res = "Panic") <=> (last.pin \notin 0..7))
  /\ \A p \in LivePins : p.pin \in 0..7

\* C12 witness: a constructor returned a pin for index 7.
C12_Witness ==
  /\ ConstructorCalled
  /\ last.res = "Ok"
  /\ last.pin = 7
  /\ \E p \in LivePins : p.pin = 7

\* C13: a call on a pin with index i changes no bit other than bit i in any
\* register, over one call and over two calls in a row on the same pin.
C13_SiblingsUndisturbed ==
  last.op # "none" =>
    /\ \A r \in Register : SiblingsKept(regs, pre, r, last.pin)
    /\ (prev.op # "none" /\ prev.bank = last.bank /\ prev.pin = last.pin) =>
         \A r \in Register : SiblingsKept(regs, pre2, r, last.pin)

\* C13 witness: set_polarity changed its bit in a register whose other bits
\* are not all equal.
C13_Witness ==
  /\ Succeeded("set_polarity")
  /\ Bit(regs[PolarityOf(last.bank)], last.pin)
       # Bit(pre[PolarityOf(last.bank)], last.pin)
  /\ \E j, k \in (0..(NumPins - 1)) \ {last.pin} :
       Bit(regs[PolarityOf(last.bank)], j) # Bit(regs[PolarityOf(last.bank)], k)

\* the four registers of a bank
BankRegisters(bank) ==
  {ConfigurationOf(bank), PolarityOf(bank), OutputOf(bank), InputOf(bank)}

\* C14: every call on a Bank0 pin reads and writes only port-0 registers and
\* every call on a Bank1 pin only port-1 registers, whatever the pin index;
\* the registers of the other bank are as they were before the call.
C14_BankSelectsRegisters ==
  last.op # "none" =>
    /\ \A k \in 1..Len(log) : log[k].reg \in BankRegisters(last.bank)
    /\ \A r \in BankRegisters(OtherBank(last.bank)) : regs[r] = pre[r]

\* C14 witness: with a Bank0 pin live, a call on a Bank1 pin changed a
\* port-1 register.
C14_Witness ==
  /\ Succeeded("Output::into_output_pin")
  /\ last.bank = "Bank1"
  /\ regs["OutputPort1"] # pre["OutputPort1"]
  /\ \E p \in LivePins : p.bank = "Bank0"

\* C15: Output::into_input_pin reads and writes only the bank's
\* configuration register, setting the pin's bit; the output register is
\* never accessed and holds the same byte before and after.
C15_OutputToInputKeepsOutput ==
  last.op = "Output::into_input_pin" =>
    /\ \A k \in 1..Len(log) : log[k].reg = ConfigurationOf(last.bank)
    /\ regs[OutputOf(last.bank)] = pre[OutputOf(last.bank)]
    /\ last.res = "Ok" =>
         /\ Len(log) = 2
         /\ ReadOk(1, ConfigurationOf(last.bank))
         /\ WriteOk(2, ConfigurationOf(last.bank))
         /\ Bit(regs[ConfigurationOf(last.bank)], last.pin) = 1

\* C15 witness: the transition set a clear configuration bit of a pin whose
\* output bit is 1 and stays 1.
C15_Witness ==
  /\ Succeeded("Output::into_input_pin")
  /\ Bit(pre[ConfigurationOf(last.bank)], last.pin) = 0
  /\ Bit(pre[OutputOf(last.bank)], last.pin) = 1
  /\ Bit(regs[OutputOf(last.bank)], last.pin) = 1

\* C16: Output::into_output_pin(state) reads and writes only the bank's
\* output register, leaving the pin's bit equal to state, and never accesses
\* the configuration register.  Input::into_input_pin accesses no register
\* and always succeeds.
C16_SameRoleTransitions ==
  /\ last.op = "Output::into_output_pin" =>
       /\ \A k \in 1..Len(log) : log[k].reg = OutputOf(last.bank)
       /\ regs[ConfigurationOf(last.bank)] = pre[ConfigurationOf(last.bank)]
       /\ last.res = "Ok" =>
            /\ Len(log) = 2
            /\ ReadOk(1, OutputOf(last.bank))
            /\ WriteOk(2, OutputOf(last.bank))
            /\ Bit(regs[OutputOf(last.bank)], last.pin) = LevelBit(last.arg)
            /\ last.obj = <<OutPin(last.bank, last.pin)>>
  /\ last.op = "Input::into_input_pin" =>
       /\ last.res = "Ok"
       /\ log = <<>>
       /\ regs = pre
       /\ last.obj = <<InPin(last.bank, last.pin)>>

\* C16 witness: Output::into_output_pin(High) raised an output bit that was 0.
C16_Witness ==
  /\ Succeeded("Output::into_output_pin")
  /\ last.arg = "High"
  /\ Bit(pre[OutputOf(last.bank)], last.pin) = 0
  /\ Bit(regs[OutputOf(last.bank)], last.pin) = 1

\* the last two calls succeeded and were made on different (bank, index)
TwoPinsInTurn ==
  /\ prev.res = "Ok" /\ last.res = "Ok"
  /\ <<prev.bank, prev.pin>> # <<last.bank, last.pin>>

\* C17: calls are serialized.  Every write of a call comes right after the
\* call's own read of the same register, with nothing of another call in
\* between, and a successful call on one pin leaves the bits of the pin
\* the previous successful call was made on as that call left them.
C17_NoLostUpdate ==
  /\ \A k \in 1..Len(log) :
       log[k].acc = "write" =>
         /\ k > 1
         /\ log[k - 1].acc = "read"
         /\ log[k - 1].reg = log[k].reg
         /\ log[k - 1].err = "none"
         /\ log[k - 1].val = RegsAfter(k - 1)[log[k].reg]
  /\ TwoPinsInTurn =>
       \A r \in BankRegisters(prev.bank) :
         Bit(regs[r], prev.pin) = Bit(pre[r], prev.pin)

\* C17 witness: OutputPin::new on one pin and then set_low on another pin
\* of the same bank both changed the bank's output register.
C17_Witness ==
  /\ TwoPinsInTurn
  /\ prev.op = "OutputPin::new"
  /\ last.op = "set_low"
  /\ prev.bank = last.bank
  /\ Bit(pre[OutputOf(prev.bank)], prev.pin) # Bit(pre2[OutputOf(prev.bank)], prev.pin)
  /\ Bit(regs[OutputOf(last.bank)], last.pin) # Bit(pre[OutputOf(last.bank)], last.pin)

\* C18: a successful set_high, set_low or set_polarity issues exactly one
\* read and then one write of the same register; a successful is_high or
\* is_low issues exactly one read, of the register as it is now, and no
\* write, and returns what that read shows.
C18_OneRegisterSequence ==
  /\ (Succeeded("set_high") \/ Succeeded("set_low") \/ Succeeded("set_polarity")) =>
       /\ Len(log) = 2
       /\ log[1].acc = "read" /\ log[1].err = "none"
       /\ log[2].acc = "write" /\ log[2].err = "none"
       /\ log[1].reg = log[2].reg
  /\ (Succeeded("is_high") \/ Succeeded("is_low")) =>
       /\ Len(log) = 1
       /\ log[1].acc = "read" /\ log[1].err = "none"
       /\ log[1].val = regs[log[1].reg]
       /\ last.val = (Bit(log[1].val, last.pin) = (IF last.op = "is_high" THEN 1 ELSE 0))

\* C18 witness: set_high read and wrote one register and changed it.
C18_Witness ==
  /\ Succeeded("set_high")
  /\ Len(log) = 2
  /\ log[1].reg = log[2].reg
  /\ regs[log[2].reg] # pre[log[2].reg]

\* C19: stale pins are not prevented.  A constructor call leaves every pin
\* object the caller already holds live, also those of the bit it is called
\* for; when it succeeds, the older pin objects of that bit find the
\* configuration bit set (after InputPin::new) or clear (after
\* OutputPin::new) whatever their role.
C19_StalePinsStayLive ==
  [][(nops' = nops + 1 /\ last'.op \in {"InputPin::new", "OutputPin::new"}) =>
       /\ \A p \in BagToSet(pins) : CopiesIn(p, pins') >= CopiesIn(p, pins)
       /\ last'.res = "Ok" =>
            \A p \in BagToSet(pins) :
              (p.bank = last'.bank /\ p.pin = last'.pin) =>
                Bit(regs'[ConfigurationOf(p.bank)], p.pin) =
                  (IF last'.op = "InputPin::new" THEN 1 ELSE 0)]_vars

\* C19 witness: InputPin::new succeeded for the bit of a live output pin,
\* and set_low then succeeded on that output pin while its configuration
\* bit is set.
C19_Witness ==
  /\ reborn
  /\ Succeeded("set_low")
  /\ prev.op = "InputPin::new" /\ prev.res = "Ok"
  /\ prev.bank = last.bank /\ prev.pin = last.pin
  /\ OutPin(last.bank, last.pin) \in LivePins
  /\ InPin(last.bank, last.pin) \in LivePins
  /\ Bit(regs[ConfigurationOf(last.bank)], last.pin) = 1

\* the register file after a recorded call is made, without device failure,
\* on register file rs
Replayed(call, rs) ==
  LET dev == Borrow(rs, NoFault)
      inp == InPin(call.bank, call.pin)
      out == OutPin(call.bank, call.pin)
  IN CASE call.op = "InputPin::new" ->
            ExpanderInputPin_new(dev, call.bank, call.pin).dev.regs
       [] call.op = "OutputPin::new" ->
            ExpanderOutputPin_new(dev, call.bank, call.pin, call.arg).dev.regs
       [] call.op = "set_polarity" -> set_polarity(dev, inp, call.arg).dev.regs
       [] call.op = "is_high" -> is_high(dev, inp).dev.regs
       [] call.op = "is_low" -> is_low(dev, inp).dev.regs
       [] call.op = "Input::into_input_pin" ->
            Input_into_input_pin(dev, inp).dev.regs
       [] call.op = "Input::into_output_pin" ->
            Input_into_output_pin(dev, inp, call.arg).dev.regs
       [] call.op = "set_low" -> set_low(dev, out).dev.regs
       [] call.op = "set_high" -> set_high(dev, out).dev.regs
       [] call.op = "Output::into_input_pin" ->
            Output_into_input_pin(dev, out).dev.regs
       [] call.op = "Output::into_output_pin" ->
            Output_into_output_pin(dev, out, call.arg).dev.regs
       [] OTHER -> rs

====
